---- MODULE Spec2Model ----
(***************************************************************************)
(* A model of the dialogue agent: the WebSocket relay of api_server.py,    *)
(* and the audio queue, recognizer thread and transcript handler of        *)
(* main.py.  Each part has its own specification over the shared           *)
(* variables: SpecRelay, SpecAudio, SpecTranscript.                        *)
(***************************************************************************)
EXTENDS Integers, Sequences, FiniteSets, TLC

\* ------------------------------------------------------------------ bounds
\* WebSocket connections ever opened in a run of the relay.
NConn == 3
\* Text messages received by the relay in a run.
MaxBcast == 1

\* Audio tracks that may be subscribed in a session.
NTracks == 2
\* Blocks of audio the tracks enqueue in a run, over all tracks.
MaxAudio == 4
\* Largest frame a track enqueues, in blocks.
MaxFrame == 2
\* AddTranscript messages delivered to on_final_transcript in a run.
MaxEvents == 3
\* lines of subprocess output followed, seconds of keep-alive followed
MaxLines == 2
MaxSleeps == 2
\* arguments on run.py's command line
MaxArgs == 2

\* Sizes are counted in blocks of 1024 bytes: the 4096 of the buffering loop
\* of AudioStream.read, and the chunk_size of audio_settings.
BufferTarget == 4
chunk_size == 1
\* `time.time() - start_time < 15` (modal_agent.py line 98), in seconds
WaitSeconds == 15

Conns == 1..NConn
Tracks == 1..NTracks
RoomNames == {"r1", "r2"}
Payloads == {"hello", "bye"}
NoRoom == "-"
NoData == "-"

VARIABLES
    \* ---- api_server.py
    room_clients,   \* app.state.room_clients: room name -> list of websockets
    ws_pc,          \* where each websocket_endpoint coroutine stands
    ws_room,        \* each handler's room_name path parameter
    ws_data,        \* each handler's local `data`
    ws_iter,        \* each handler's list iterator: elements consumed so far
    peer_open,      \* whether the client end of the connection is still open
    received,       \* history: what send_text wrote to each connection
    broadcasts,     \* history: one record per text message the relay received
    \* ---- main.py: entrypoint, AudioStream, run_speechmatics, process_audio_track
    entry_pc,       \* where entrypoint stands: waiting (line 252), joining (258), ended
    sm_thread,      \* the run_speechmatics thread
    track_pc,       \* each process_audio_track task
    track_sent,     \* bytes each track has enqueued so far
    audio_queue,    \* audio_queue: frames, and the None sentinel
    stream_buffer,  \* AudioStream.buffer
    stream_closed,  \* AudioStream._closed
    read_pc,        \* whether a read call is inside its buffering loop
    read_size,      \* the size argument of the read call in progress
    read_out,       \* history: the bytes the reads have returned, in order
    eof_seen,       \* history: a read has returned b''
    enqueued,       \* history: the bytes put on the queue, in order
    sentinel_at,    \* history: Len(enqueued) when None was put, -1 before
    \* ---- main.py: on_final_transcript
    speaker_messages, \* speaker_messages: speaker -> list of {text, timestamp}
    published,      \* the payloads scheduled on the main loop for publish_data
    loop_closed,    \* whether the main event loop has been closed
    fed,            \* history: the results of each message delivered so far
    last_shape,     \* history: the shape of the last message delivered
    prev_messages,  \* history: speaker_messages before the last message
    \* ---- modal_agent.py: run_livekit_agent
    modal_pc,       \* where run_livekit_agent stands
    agent_ready,    \* the global agent_ready
    elapsed,        \* seconds since start_time (line 96)
    agent_proc,     \* the main.py subprocess of the run_agent thread
    agent_out,      \* history: the lines the subprocess has written
    slept,          \* seconds spent in the loop of lines 105-106
    \* ---- run.py: main
    run_pc,         \* where run.py stands
    run_argv,       \* sys.argv[1:]
    run_cmd,        \* cmd as passed to subprocess.run, <<>> before
    run_printed,    \* what main has printed
    run_status      \* the exit status of run.py, once exited

relay_vars == <<room_clients, ws_pc, ws_room, ws_data, ws_iter, peer_open,
                received, broadcasts>>

audio_vars == <<entry_pc, sm_thread, track_pc, track_sent, audio_queue,
                stream_buffer, stream_closed, read_pc, read_size, read_out,
                eof_seen, enqueued, sentinel_at>>

transcript_vars == <<speaker_messages, published, loop_closed, fed, last_shape,
                     prev_messages>>

modal_vars == <<modal_pc, agent_ready, elapsed, agent_proc, agent_out, slept>>

run_vars == <<run_pc, run_argv, run_cmd, run_printed, run_status>>

script_vars == <<modal_vars, run_vars>>

vars == <<relay_vars, audio_vars, transcript_vars, script_vars>>

\* ------------------------------------------------------------ api_server.py

Min(S) == CHOOSE x \in S : \A y \in S : x <= y

Range(s) == {s[i] : i \in 1..Len(s)}

\* list.remove(x): drops the first element equal to x.
ListRemove(lst, x) ==
    LET hits == {i \in 1..Len(lst) : lst[i] = x}
    IN IF hits = {} THEN lst
       ELSE LET k == Min(hits)
            IN [i \in 1..(Len(lst) - 1) |-> IF i < k THEN lst[i] ELSE lst[i + 1]]

\* room_clients after `room_clients[room_name].append(websocket)`, the key
\* being created with an empty list when absent (lines 76-79).
Register(rc, r, c) ==
    [x \in DOMAIN rc \cup {r} |->
        IF x = r THEN Append(IF r \in DOMAIN rc THEN rc[r] ELSE <<>>, c)
        ELSE rc[x]]

\* room_clients after the except branch (lines 92-94): remove the websocket,
\* delete the room's key when its list became empty.
Unregister(rc, r, c) ==
    LET lst == ListRemove(rc[r], c)
    IN IF lst = <<>>
       THEN [x \in DOMAIN rc \ {r} |-> rc[x]]
       ELSE [rc EXCEPT ![r] = lst]

\* The list the for loop of handler c walks: app.state.room_clients[room_name]
\* (line 87).  The handler's own websocket stays in that list while the loop
\* runs, so the key is never deleted under a running loop.
ClientList_AllRooms(c) ==
    (IF "r1" \in DOMAIN room_clients THEN room_clients["r1"] ELSE <<>>)
        \o (IF "r2" \in DOMAIN room_clients THEN room_clients["r2"] ELSE <<>>)

ClientList(c) == room_clients[ws_room[c]]

\* `if client != websocket` (line 88).
IsOther(client, websocket) == client # websocket

\* send_text to a connection raises when its peer has gone or when the
\* server side has closed it (its handler is over).
SendFails(t) == ~peer_open[t] \/ ws_pc[t] \in {"returned", "raised"}

\* What send_text raises on a closed connection depends on the ASGI stack in
\* use: WebSocketDisconnect, or another exception (RuntimeError and the like).
SendErrors == {"WebSocketDisconnect", "Exception"}

DeliveredTo(t, b, rcv) == {i \in 1..Len(rcv[t]) : rcv[t][i].bid = b}

\* History only: the members of the snapshot that are still registered and
\* connected when the loop of broadcast b ends and that were sent nothing.
Missed(b, bcs, rc, rcv) ==
    {t \in bcs[b].members \ {bcs[b].sender} :
        /\ bcs[b].room \in DOMAIN rc
        /\ t \in Range(rc[bcs[b].room])
        /\ peer_open[t]
        /\ ws_pc[t] \in {"receive_text", "send_text"}
        /\ DeliveredTo(t, b, rcv) = {}}

\* The payload send_text writes (line 89): the received text, unchanged.
Relayed(data) == data

\* The for loop of lines 87-89 from iterator position i up to its next await,
\* its end, or the exception a send raises.  data is the text being relayed,
\* bcs the history with this broadcast in it.
RunLoop(c, i, data, bcs) ==
    LET lst  == ClientList(c)
        b    == CHOOSE k \in 1..Len(bcs) :
                    bcs[k].sender = c /\ \A j \in 1..Len(bcs) : bcs[j].sender = c => j <= k
        cand == {j \in (i + 1)..Len(lst) : IsOther(lst[j], c)}
    IN IF cand = {}
       THEN \* the list is exhausted: back to receive_text
            /\ ws_pc' = [ws_pc EXCEPT ![c] = "receive_text"]
            /\ ws_iter' = [ws_iter EXCEPT ![c] = 0]
            /\ broadcasts' = [bcs EXCEPT ![b].status = "done",
                                         ![b].missed = Missed(b, bcs, room_clients, received)]
            /\ UNCHANGED <<room_clients, received>>
       ELSE LET j == Min(cand)
                t == lst[j]
            IN IF SendFails(t)
               THEN \E exc \in SendErrors :
                      /\ ws_iter' = [ws_iter EXCEPT ![c] = 0]
                      /\ UNCHANGED received
                      /\ IF exc = "WebSocketDisconnect"
                         THEN \* caught at line 91: the sender unregisters itself
                              /\ room_clients' = Unregister(room_clients, ws_room[c], c)
                              /\ ws_pc' = [ws_pc EXCEPT ![c] = "returned"]
                         ELSE \* not caught: the handler ends, nothing is unregistered
                              /\ UNCHANGED room_clients
                              /\ ws_pc' = [ws_pc EXCEPT ![c] = "raised"]
                      /\ broadcasts' = [bcs EXCEPT ![b].status = "aborted",
                                                   ![b].failed = t,
                                                   ![b].removed = IF exc = "WebSocketDisconnect"
                                                                  THEN {c} ELSE {},
                                                   ![b].missed = Missed(b, bcs, room_clients, received)]
               ELSE /\ received' = [received EXCEPT ![t] = Append(@, [bid |-> b, text |-> Relayed(data)])]
                    /\ ws_pc' = [ws_pc EXCEPT ![c] = "send_text"]
                    /\ ws_iter' = [ws_iter EXCEPT ![c] = j]
                    /\ broadcasts' = bcs
                    /\ UNCHANGED room_clients

\* A client opens /ws/{r}: accept, then lines 73-79, up to the first
\* receive_text.  Connections are numbered in the order they are opened, and
\* room names in the order they are first used.
Connect(c, r) ==
    /\ ws_pc[c] = "new"
    /\ \A d \in Conns : d < c => ws_pc[d] # "new"
    /\ r = "r2" => \E d \in Conns : ws_room[d] = "r1"
    /\ room_clients' = Register(room_clients, r, c)
    /\ ws_room' = [ws_room EXCEPT ![c] = r]
    /\ ws_pc' = [ws_pc EXCEPT ![c] = "receive_text"]
    /\ UNCHANGED <<ws_data, ws_iter, peer_open, received, broadcasts>>
    /\ UNCHANGED <<audio_vars, transcript_vars, script_vars>>

\* The client end goes away; its handler learns of it at its next
\* receive_text.
PeerClose(c) ==
    /\ ws_pc[c] \in {"receive_text", "send_text"}
    /\ peer_open[c]
    /\ peer_open' = [peer_open EXCEPT ![c] = FALSE]
    /\ UNCHANGED <<room_clients, ws_pc, ws_room, ws_data, ws_iter, received, broadcasts>>
    /\ UNCHANGED <<audio_vars, transcript_vars, script_vars>>

\* receive_text returns a text (line 84) and the loop starts.
Receive(c, m) ==
    /\ ws_pc[c] = "receive_text"
    /\ peer_open[c]
    /\ Len(broadcasts) < MaxBcast
    /\ ws_data' = [ws_data EXCEPT ![c] = m]
    /\ RunLoop(c, 0, m,
               Append(broadcasts,
                      [sender |-> c, room |-> ws_room[c], text |-> m,
                       members |-> {t \in Range(ClientList(c)) : ~SendFails(t)},
                       status |-> "running", failed |-> 0, removed |-> {},
                       missed |-> {}]))
    /\ UNCHANGED <<ws_room, peer_open>>
    /\ UNCHANGED <<audio_vars, transcript_vars, script_vars>>

\* An awaited send_text completes and the loop goes on.
SendDone(c) ==
    /\ ws_pc[c] = "send_text"
    /\ RunLoop(c, ws_iter[c], ws_data[c], broadcasts)
    /\ UNCHANGED <<ws_room, ws_data, peer_open>>
    /\ UNCHANGED <<audio_vars, transcript_vars, script_vars>>

\* receive_text raises WebSocketDisconnect: lines 91-94, and the handler
\* returns.
Disconnect(c) ==
    /\ ws_pc[c] = "receive_text"
    /\ ~peer_open[c]
    /\ room_clients' = Unregister(room_clients, ws_room[c], c)
    /\ ws_pc' = [ws_pc EXCEPT ![c] = "returned"]
    /\ UNCHANGED <<ws_room, ws_data, ws_iter, peer_open, received, broadcasts>>
    /\ UNCHANGED <<audio_vars, transcript_vars, script_vars>>

\* ------------------------------------------------------------------ main.py
\* ---- the audio queue, AudioStream, the recognizer thread, entrypoint

\* The size arguments a caller gives read: the default, and the chunk size the
\* recognizer is configured with (line 57).
ReadSizes == {-1, chunk_size}

Frame(data) == [sentinel |-> FALSE, data |-> data]
None == [sentinel |-> TRUE, data |-> <<>>]

\* frame_event.frame.data.tobytes() of the next n blocks of track t: each
\* block is named by its track and its position in the track.
TrackBytes(t, from, n) == [k \in 1..n |-> <<t, from + k>>]

ThreadAlive == sm_thread \in {"starting", "streaming"}

\* Lines 164-169: what read returns, and what it leaves in the buffer.
ReadResult(buf, size) ==
    IF size = -1 \/ size >= Len(buf) THEN buf ELSE SubSeq(buf, 1, size)

ReadRest_Lossy(buf, size) == <<>>

ReadRest(buf, size) ==
    IF size = -1 \/ size >= Len(buf) THEN <<>> ELSE SubSeq(buf, size + 1, Len(buf))

\* The tail of read (lines 164-172) on buffer buf; the call is over and its
\* argument is gone.
ReadReturn(buf, size) ==
    /\ read_out' = read_out \o ReadResult(buf, size)
    /\ stream_buffer' = ReadRest(buf, size)
    /\ eof_seen' = (eof_seen \/ ReadResult(buf, size) = <<>>)
    /\ read_pc' = "idle"
    /\ read_size' = 0

\* `while len(self.buffer) < 4096` (line 151).
MustBuffer_Never(buf) == FALSE

MustBuffer(buf) == Len(buf) < BufferTarget

\* on_track_subscribed (lines 233-237), or the loop over the tracks already
\* published (240-244): a process_audio_track task is created.  It runs on the
\* event loop, which the join of line 258 blocks.  Tracks are numbered in the
\* order they are subscribed.
TrackSubscribed(t) ==
    /\ track_pc[t] = "unsubscribed"
    /\ \A u \in Tracks : u < t => track_pc[u] # "unsubscribed"
    /\ entry_pc # "joining"
    /\ track_pc' = [track_pc EXCEPT ![t] = "streaming"]
    /\ UNCHANGED <<entry_pc, sm_thread, track_sent, audio_queue, stream_buffer,
                   stream_closed, read_pc, read_size, read_out, eof_seen,
                   enqueued, sentinel_at>>
    /\ UNCHANGED <<relay_vars, transcript_vars, script_vars>>

\* One turn of the `async for` of process_audio_track (lines 275-279): a frame
\* of n blocks is put on the queue.  Nothing cancels the task at teardown.
TrackFrame(t, n) ==
    /\ track_pc[t] = "streaming"
    /\ entry_pc # "joining"
    /\ Len(enqueued) + n <= MaxAudio
    /\ audio_queue' = Append(audio_queue, Frame(TrackBytes(t, track_sent[t], n)))
    /\ enqueued' = enqueued \o TrackBytes(t, track_sent[t], n)
    /\ track_sent' = [track_sent EXCEPT ![t] = @ + n]
    /\ UNCHANGED <<entry_pc, sm_thread, track_pc, stream_buffer, stream_closed,
                   read_pc, read_size, read_out, eof_seen, sentinel_at>>
    /\ UNCHANGED <<relay_vars, transcript_vars, script_vars>>

\* The track's stream ends, or raises and the exception is logged (lines
\* 284-287): the task is over either way.
TrackEnd_All(t, how) ==
    /\ track_pc[t] = "streaming"
    /\ entry_pc # "joining"
    /\ track_pc' = [u \in Tracks |-> IF track_pc[u] = "streaming" THEN how ELSE track_pc[u]]
    /\ UNCHANGED <<entry_pc, sm_thread, track_sent, audio_queue, stream_buffer,
                   stream_closed, read_pc, read_size, read_out, eof_seen,
                   enqueued, sentinel_at>>
    /\ UNCHANGED <<relay_vars, transcript_vars, script_vars>>

TrackEnd(t, how) ==
    /\ track_pc[t] = "streaming"
    /\ entry_pc # "joining"
    /\ track_pc' = [track_pc EXCEPT ![t] = how]
    /\ UNCHANGED <<entry_pc, sm_thread, track_sent, audio_queue, stream_buffer,
                   stream_closed, read_pc, read_size, read_out, eof_seen,
                   enqueued, sentinel_at>>
    /\ UNCHANGED <<relay_vars, transcript_vars, script_vars>>

\* run_speechmatics, lines 185-217: the client is created and
\* run_synchronously connects and starts to read the audio stream.
SmStarted ==
    /\ sm_thread = "starting"
    /\ sm_thread' = "streaming"
    /\ UNCHANGED <<entry_pc, track_pc, track_sent, audio_queue, stream_buffer,
                   stream_closed, read_pc, read_size, read_out, eof_seen,
                   enqueued, sentinel_at>>
    /\ UNCHANGED <<relay_vars, transcript_vars, script_vars>>

\* The recognizer cannot be started (connection or authentication failure):
\* the exception is caught and logged at lines 219-222, and the thread ends.
\* Nothing is passed to entrypoint.
SmStartFails ==
    /\ sm_thread = "starting"
    /\ sm_thread' = "start_failed"
    /\ UNCHANGED <<entry_pc, track_pc, track_sent, audio_queue, stream_buffer,
                   stream_closed, read_pc, read_size, read_out, eof_seen,
                   enqueued, sentinel_at>>
    /\ UNCHANGED <<relay_vars, transcript_vars, script_vars>>

\* run_synchronously raises while streaming: the same except clause.
SmStreamFails ==
    /\ sm_thread = "streaming"
    /\ read_pc = "idle"
    /\ sm_thread' = "stream_failed"
    /\ UNCHANGED <<entry_pc, track_pc, track_sent, audio_queue, stream_buffer,
                   stream_closed, read_pc, read_size, read_out, eof_seen,
                   enqueued, sentinel_at>>
    /\ UNCHANGED <<relay_vars, transcript_vars, script_vars>>

\* The recognizer has read the end of the stream and run_synchronously
\* returns.
SmFinished ==
    /\ sm_thread = "streaming"
    /\ read_pc = "idle"
    /\ eof_seen
    /\ sm_thread' = "finished"
    /\ UNCHANGED <<entry_pc, track_pc, track_sent, audio_queue, stream_buffer,
                   stream_closed, read_pc, read_size, read_out, eof_seen,
                   enqueued, sentinel_at>>
    /\ UNCHANGED <<relay_vars, transcript_vars, script_vars>>

\* AudioStream.read(size) is called (line 146): closed returns b'' at once, a
\* buffer that is full enough is served at once, otherwise the buffering loop
\* is entered.
ReadCall(size) ==
    /\ sm_thread = "streaming"
    /\ read_pc = "idle"
    /\ IF stream_closed
       THEN /\ eof_seen' = TRUE
            /\ UNCHANGED <<stream_buffer, read_pc, read_size, read_out>>
       ELSE IF MustBuffer(stream_buffer)
            THEN /\ read_pc' = "buffering"
                 /\ read_size' = size
                 /\ UNCHANGED <<stream_buffer, read_out, eof_seen>>
            ELSE ReadReturn(stream_buffer, size)
    /\ UNCHANGED <<entry_pc, sm_thread, track_pc, track_sent, audio_queue,
                   stream_closed, enqueued, sentinel_at>>
    /\ UNCHANGED <<relay_vars, transcript_vars, script_vars>>

\* One audio_queue.get(timeout=0.1) of the buffering loop (lines 152-162).
ReadGet ==
    /\ read_pc = "buffering"
    /\ \/ /\ audio_queue # <<>>
          /\ Head(audio_queue).sentinel
          /\ audio_queue' = Tail(audio_queue)
          /\ stream_closed' = TRUE
          /\ ReadReturn(stream_buffer, read_size)
       \/ /\ audio_queue # <<>>
          /\ ~Head(audio_queue).sentinel
          /\ audio_queue' = Tail(audio_queue)
          /\ UNCHANGED stream_closed
          /\ LET buf == stream_buffer \o Head(audio_queue).data
             IN IF MustBuffer(buf)
                THEN /\ stream_buffer' = buf
                     /\ UNCHANGED <<read_pc, read_size, read_out, eof_seen>>
                ELSE ReadReturn(buf, read_size)
       \/ \* queue.Empty with something buffered: return what we have
          /\ audio_queue = <<>>
          /\ Len(stream_buffer) > 0
          /\ UNCHANGED <<audio_queue, stream_closed>>
          /\ ReadReturn(stream_buffer, read_size)
    /\ UNCHANGED <<entry_pc, sm_thread, track_pc, track_sent, enqueued, sentinel_at>>
    /\ UNCHANGED <<relay_vars, transcript_vars, script_vars>>

\* entrypoint is cancelled (line 253); the finally clause puts the sentinel
\* (line 257) and starts to join the thread (line 258).
Teardown ==
    /\ entry_pc = "waiting"
    /\ audio_queue' = Append(audio_queue, None)
    /\ sentinel_at' = Len(enqueued)
    /\ entry_pc' = "joining"
    /\ UNCHANGED <<sm_thread, track_pc, track_sent, stream_buffer, stream_closed,
                   read_pc, read_size, read_out, eof_seen, enqueued>>
    /\ UNCHANGED <<relay_vars, transcript_vars, script_vars>>

\* join(timeout=5) returns: the thread has ended, or the five seconds have
\* passed with the thread still running.  entrypoint ends either way.
JoinReturns ==
    /\ entry_pc = "joining"
    /\ entry_pc' = "ended"
    /\ UNCHANGED <<sm_thread, track_pc, track_sent, audio_queue, stream_buffer,
                   stream_closed, read_pc, read_size, read_out, eof_seen,
                   enqueued, sentinel_at>>
    /\ UNCHANGED <<relay_vars, transcript_vars, script_vars>>

\* ---- on_final_transcript (lines 62-134)

\* Python values: a str is its list of characters, the content of an
\* alternative may also be JSON null.
Str(chars) == [py |-> "str", v |-> chars]
PyNone == [py |-> "NoneType", v |-> <<>>]

Whitespace == {" ", "\t", "\n"}

\* str.strip(): leading and trailing whitespace removed.
RECURSIVE LStrip(_)
LStrip(chars) ==
    IF chars # <<>> /\ Head(chars) \in Whitespace THEN LStrip(Tail(chars)) ELSE chars

RECURSIVE RStrip(_)
RStrip(chars) ==
    IF chars # <<>> /\ chars[Len(chars)] \in Whitespace
    THEN RStrip(SubSeq(chars, 1, Len(chars) - 1))
    ELSE chars

Strip_Identity(chars) == chars

Strip(chars) == RStrip(LStrip(chars))

\* dict.get(key, default)
DictGet(d, key, default) == IF key \in DOMAIN d THEN d[key] ELSE default

\* Line 88: the label of a result is its first alternative's speaker, 'unknown'
\* when the recognizer attributed none.
SpeakerOf_Unlabelled(alt) == DictGet(alt, "speaker", "")

SpeakerOf(alt) == DictGet(alt, "speaker", "unknown")

\* Lines 67-79: where the results are looked for, in this order.
ExtractResults_NestedFirst(msg) ==
    IF "metadata" \in DOMAIN msg /\ "results" \in DOMAIN msg.metadata
    THEN msg.metadata.results
    ELSE IF "results" \in DOMAIN msg THEN msg.results ELSE <<msg>>

ExtractResults(msg) ==
    IF "results" \in DOMAIN msg
    THEN msg.results
    ELSE IF "metadata" \in DOMAIN msg /\ "results" \in DOMAIN msg.metadata
         THEN msg.metadata.results
         ELSE <<msg>>

\* speaker_messages[speaker].append(entry), the list being created when the
\* speaker is new (lines 94-100).
AppendEntry_Front(sm, speaker, entry) ==
    [s \in DOMAIN sm \cup {speaker} |->
        IF s = speaker
        THEN <<entry>> \o (IF speaker \in DOMAIN sm THEN sm[speaker] ELSE <<>>)
        ELSE sm[s]]

AppendEntry_Replace(sm, speaker, entry) ==
    [s \in DOMAIN sm \cup {speaker} |-> IF s = speaker THEN <<entry>> ELSE sm[s]]

AppendEntry(sm, speaker, entry) ==
    [s \in DOMAIN sm \cup {speaker} |->
        IF s = speaker
        THEN Append(IF speaker \in DOMAIN sm THEN sm[speaker] ELSE <<>>, entry)
        ELSE sm[s]]

\* json.dumps(message_data) (lines 105-118): the object's members, in the
\* order the dict was built.
JsonDumps(message_data) ==
    << <<"type", message_data.type>>,
       <<"speaker", message_data.speaker>>,
       <<"text", message_data.text>>,
       <<"timestamp", message_data.timestamp>> >>

\* asyncio.run_coroutine_threadsafe(publish_data(payload), main_loop) (lines
\* 115-127): the payload joins the loop's schedule; on a closed loop the call
\* raises, the exception is logged and nothing is scheduled.
Schedule_Front(pub, payload, closed) ==
    IF closed THEN pub ELSE <<payload>> \o pub

Schedule_Twice(pub, payload, closed) ==
    IF closed THEN pub ELSE pub \o <<payload, payload>>

Schedule(pub, payload, closed) ==
    IF closed THEN pub ELSE Append(pub, payload)

\* The body of the for loop for one result (lines 84-127) on the state acc =
\* [sm, pub, raised]: raised is set when the body raises, which ends the loop
\* (the except of line 130).
HandleResult(acc, result, closed) ==
    LET alternatives == DictGet(result, "alternatives", <<>>)
    IN IF alternatives = <<>>
       THEN acc
       ELSE LET text       == DictGet(alternatives[1], "content", Str(<<>>))
                speaker    == SpeakerOf(alternatives[1])
                start_time == DictGet(result, "start_time", 0)
            IN IF text.py # "str"
               THEN [acc EXCEPT !.raised = TRUE]
               ELSE IF Strip(text.v) = <<>>
                    THEN acc
                    ELSE [acc EXCEPT
                            !.sm = AppendEntry(@, speaker,
                                               [text |-> text.v, timestamp |-> start_time]),
                            !.pub = Schedule(@, JsonDumps([type |-> "transcription",
                                                           speaker |-> speaker,
                                                           text |-> text.v,
                                                           timestamp |-> start_time]),
                                             closed)]

RECURSIVE HandleResults(_, _, _, _)
HandleResults(acc, results, i, closed) ==
    IF i > Len(results) \/ acc.raised
    THEN acc
    ELSE HandleResults(HandleResult(acc, results[i], closed), results, i + 1, closed)

\* on_final_transcript(msg) on the transcript sm and the schedule pub.
OnFinalTranscript(msg, sm, pub, closed) ==
    HandleResults([sm |-> sm, pub |-> pub, raised |-> FALSE],
                  ExtractResults(msg), 1, closed)

\* ---- the recognition messages fed to the handler
Hi == <<"h", "i">>
Yo == <<"y", "o">>
There == <<"t", "h", "e", "r", "e">>

ResultAHi == [alternatives |-> <<[content |-> Str(Hi), speaker |-> "A"]>>, start_time |-> 1]
ResultBYo == [alternatives |-> <<[content |-> Str(Yo), speaker |-> "B"]>>, start_time |-> 2]
ResultAThere == [alternatives |-> <<[content |-> Str(There), speaker |-> "A"]>>, start_time |-> 3]
\* no speaker and no start_time
ResultAnon == [alternatives |-> <<[content |-> Str(<<" ">> \o Hi)]>>]
\* whitespace only
ResultBlank == [alternatives |-> <<[content |-> Str(<<" ", " ">>), speaker |-> "A"]>>, start_time |-> 2]
\* no alternative
ResultNoAlt == [alternatives |-> <<>>, start_time |-> 3]
\* no content: the text defaults to ''
ResultNoText == [alternatives |-> <<[speaker |-> "B"]>>, start_time |-> 1]
\* content is null: text.strip() raises
ResultNull == [alternatives |-> <<[content |-> PyNone, speaker |-> "B"]>>, start_time |-> 1]

Singles == {<<ResultAHi>>, <<ResultBYo>>, <<ResultAThere>>, <<ResultAnon>>,
            <<ResultBlank>>, <<ResultNoText>>, <<ResultNoAlt>>, <<ResultNull>>}

Batches == Singles \cup
           {<<>>, <<ResultAHi, ResultBYo>>, <<ResultBYo, ResultAThere>>,
            <<ResultNull, ResultAHi>>, <<ResultAThere, ResultNull>>}

Shapes == {"top", "nested", "both", "bare"}

\* The message of a given shape that carries the results rs.
Wrap(shape, rs) ==
    CASE shape = "top" ->
           [message |-> "AddTranscript", metadata |-> [transcript |-> "-"], results |-> rs]
      [] shape = "nested" ->
           [message |-> "AddTranscript", metadata |-> [transcript |-> "-", results |-> rs]]
      [] shape = "both" ->
           [message |-> "AddTranscript",
            metadata |-> [transcript |-> "-", results |-> <<ResultBYo>>],
            results |-> rs]
      [] shape = "bare" -> rs[1]

\* The recognizer delivers an AddTranscript message: on_final_transcript runs
\* to its end on the recognizer thread.
FinalTranscript(shape, rs) ==
    /\ Len(fed) < MaxEvents
    /\ shape = "bare" => Len(rs) = 1
    /\ LET out == OnFinalTranscript(Wrap(shape, rs), speaker_messages, published, loop_closed)
       IN /\ speaker_messages' = out.sm
          /\ published' = out.pub
    /\ fed' = Append(fed, rs)
    /\ last_shape' = shape
    /\ prev_messages' = speaker_messages
    /\ UNCHANGED loop_closed
    /\ UNCHANGED <<relay_vars, audio_vars, script_vars>>

\* The agent's event loop is closed (the job is over) while the recognizer
\* thread may still deliver messages.
LoopCloses ==
    /\ ~loop_closed
    /\ loop_closed' = TRUE
    /\ UNCHANGED <<speaker_messages, published, fed, last_shape, prev_messages>>
    /\ UNCHANGED <<relay_vars, audio_vars, script_vars>>

\* ---- modal_agent.py: run_livekit_agent (lines 39-111)

\* A line of output is its list of words; str.lower() on the words that have
\* an upper-case letter.
Lower(w) ==
    CASE w = "Registered" -> "registered"
      [] w = "Agent" -> "agent"
      [] w = "Transcription" -> "transcription"
      [] OTHER -> w

LowerLine(line) == [i \in 1..Len(line) |-> Lower(line[i])]

\* `marker in line`
Contains(line, marker) ==
    \E i \in 0..(Len(line) - Len(marker)) : SubSeq(line, i + 1, i + Len(marker)) = marker

\* Lines 85-87.
ReadyMarkers ==
    { <<"registered", "worker">>,
      <<"agent", "connected", "with", "language">>,
      <<"transcription", "config", "created">> }

IsReadyLine(line) == \E m \in ReadyMarkers : Contains(LowerLine(line), m)

\* What main.py may write.
AgentLines ==
    { <<"Registered", "worker", "id">>,
      <<"Agent", "connected", "with", "language", "en">>,
      <<"starting", "worker">>,
      <<"registered", "a", "worker">> }

\* One turn of `for line in process.stdout` (lines 82-89) in the run_agent
\* thread.
AgentPrints(line) ==
    /\ agent_proc = "running"
    /\ Len(agent_out) < MaxLines
    /\ agent_out' = Append(agent_out, line)
    /\ agent_ready' = (agent_ready \/ IsReadyLine(line))
    /\ UNCHANGED <<modal_pc, elapsed, agent_proc, slept>>
    /\ UNCHANGED <<relay_vars, audio_vars, transcript_vars, run_vars>>

\* The subprocess ends: its output is over and process.wait() returns (line
\* 91); the daemon thread ends.
AgentExits ==
    /\ agent_proc = "running"
    /\ agent_proc' = "exited"
    /\ UNCHANGED <<modal_pc, agent_ready, elapsed, agent_out, slept>>
    /\ UNCHANGED <<relay_vars, audio_vars, transcript_vars, run_vars>>

\* `while not agent_ready and time.time() - start_time < 15` (line 98).
StillWaiting == ~agent_ready /\ elapsed < WaitSeconds

\* A second passes in the polling loop of lines 98-99.
WaitTick ==
    /\ modal_pc = "polling"
    /\ StillWaiting
    /\ elapsed' = elapsed + 1
    /\ UNCHANGED <<modal_pc, agent_ready, agent_proc, agent_out, slept>>
    /\ UNCHANGED <<relay_vars, audio_vars, transcript_vars, run_vars>>

\* The polling loop is left (lines 98-111): ready, the function enters the
\* endless loop of lines 105-106; not ready, it raises.
WaitOver ==
    /\ modal_pc = "polling"
    /\ ~StillWaiting
    /\ modal_pc' = IF agent_ready THEN "keepalive" ELSE "raised"
    /\ UNCHANGED <<agent_ready, elapsed, agent_proc, agent_out, slept>>
    /\ UNCHANGED <<relay_vars, audio_vars, transcript_vars, run_vars>>

\* `while True: time.sleep(1)` (lines 105-106).
KeepAlive ==
    /\ modal_pc = "keepalive"
    /\ slept < MaxSleeps
    /\ slept' = slept + 1
    /\ UNCHANGED <<modal_pc, agent_ready, elapsed, agent_proc, agent_out>>
    /\ UNCHANGED <<relay_vars, audio_vars, transcript_vars, run_vars>>

\* KeyboardInterrupt in the loop (lines 107-108): the only way out of it.
Interrupted ==
    /\ modal_pc = "keepalive"
    /\ modal_pc' = "returned"
    /\ UNCHANGED <<agent_ready, elapsed, agent_proc, agent_out, slept>>
    /\ UNCHANGED <<relay_vars, audio_vars, transcript_vars, run_vars>>

\* ---- run.py: main (lines 14-44)

Args == {"dev", "prod", "start", "test", "--verbose"}

ArgLists == UNION {[1..n -> Args] : n \in 0..MaxArgs}

ReturnCodes == {0, 1, 2}

\* sys.executable
PythonExe == "python"

\* Line 16.
ModeArg(argv) == IF Len(argv) > 0 THEN argv[1] ELSE "dev"

\* Line 18.
AcceptedModes == {"dev", "prod", "start"}

\* Lines 25-26.
CliMode_Same(mode) == mode

CliMode(mode) == IF mode = "prod" THEN "start" ELSE mode

\* Lines 29-33.
Cmd(argv) ==
    <<PythonExe, "main.py", CliMode(ModeArg(argv))>> \o
        (IF Len(argv) > 1 THEN SubSeq(argv, 2, Len(argv)) ELSE <<>>)

\* run.py is started with the arguments argv.
RunInvoked(argv) ==
    /\ run_pc = "shell"
    /\ run_argv' = argv
    /\ run_pc' = "main"
    /\ UNCHANGED <<run_cmd, run_printed, run_status>>
    /\ UNCHANGED <<relay_vars, audio_vars, transcript_vars, modal_vars>>

\* main() up to the call of subprocess.run (lines 16-39).
RunMain ==
    /\ run_pc = "main"
    /\ IF ModeArg(run_argv) \notin AcceptedModes
       THEN /\ run_printed' = Append(run_printed, "usage")
            /\ run_status' = 1
            /\ run_pc' = "exited"
            /\ UNCHANGED run_cmd
       ELSE /\ run_cmd' = Cmd(run_argv)
            /\ run_printed' = Append(run_printed, "starting")
            /\ run_pc' = "subprocess"
            /\ UNCHANGED run_status
    /\ UNCHANGED run_argv
    /\ UNCHANGED <<relay_vars, audio_vars, transcript_vars, modal_vars>>

\* subprocess.run(cmd, check=True) ends with return code rc (lines 39-44): a
\* non-zero code raises CalledProcessError and becomes the exit status.
ChildReturns(rc) ==
    /\ run_pc = "subprocess"
    /\ run_status' = rc
    /\ run_printed' = IF rc = 0 THEN run_printed ELSE Append(run_printed, "error")
    /\ run_pc' = "exited"
    /\ UNCHANGED <<run_argv, run_cmd>>
    /\ UNCHANGED <<relay_vars, audio_vars, transcript_vars, modal_vars>>

\* KeyboardInterrupt while the subprocess runs (lines 40-41).
ChildInterrupted ==
    /\ run_pc = "subprocess"
    /\ run_printed' = Append(run_printed, "shutting down")
    /\ run_status' = 0
    /\ run_pc' = "exited"
    /\ UNCHANGED <<run_argv, run_cmd>>
    /\ UNCHANGED <<relay_vars, audio_vars, transcript_vars, modal_vars>>

InitRelay ==
    /\ room_clients = <<>>
    /\ ws_pc = [c \in Conns |-> "new"]
    /\ ws_room = [c \in Conns |-> NoRoom]
    /\ ws_data = [c \in Conns |-> NoData]
    /\ ws_iter = [c \in Conns |-> 0]
    /\ peer_open = [c \in Conns |-> TRUE]
    /\ received = [c \in Conns |-> <<>>]
    /\ broadcasts = <<>>

InitAudio ==
    /\ entry_pc = "waiting"
    /\ sm_thread = "starting"
    /\ track_pc = [t \in Tracks |-> "unsubscribed"]
    /\ track_sent = [t \in Tracks |-> 0]
    /\ audio_queue = <<>>
    /\ stream_buffer = <<>>
    /\ stream_closed = FALSE
    /\ read_pc = "idle"
    /\ read_size = 0
    /\ read_out = <<>>
    /\ eof_seen = FALSE
    /\ enqueued = <<>>
    /\ sentinel_at = -1

InitTranscript ==
    /\ speaker_messages = <<>>
    /\ published = <<>>
    /\ loop_closed = FALSE
    /\ fed = <<>>
    /\ last_shape = "-"
    /\ prev_messages = <<>>

\* run_livekit_agent has started the run_agent thread (line 93) and taken
\* start_time (line 96).
InitModal ==
    /\ modal_pc = "polling"
    /\ agent_ready = FALSE
    /\ elapsed = 0
    /\ agent_proc = "running"
    /\ agent_out = <<>>
    /\ slept = 0

InitRun ==
    /\ run_pc = "shell"
    /\ run_argv = <<>>
    /\ run_cmd = <<>>
    /\ run_printed = <<>>
    /\ run_status = 0

Init == InitRelay /\ InitAudio /\ InitTranscript /\ InitModal /\ InitRun

NextRelay ==
    \/ \E c \in Conns, r \in RoomNames : Connect(c, r)
    \/ \E c \in Conns : PeerClose(c)
    \/ \E c \in Conns, m \in Payloads : Receive(c, m)
    \/ \E c \in Conns : SendDone(c)
    \/ \E c \in Conns : Disconnect(c)

SpecRelay == Init /\ [][NextRelay]_vars

NextAudio ==
    \/ \E t \in Tracks : TrackSubscribed(t)
    \/ \E t \in Tracks, n \in 1..MaxFrame : TrackFrame(t, n)
    \/ \E t \in Tracks, how \in {"ended", "failed"} : TrackEnd(t, how)
    \/ SmStarted
    \/ SmStartFails
    \/ SmStreamFails
    \/ SmFinished
    \/ \E size \in ReadSizes : ReadCall(size)
    \/ ReadGet
    \/ Teardown
    \/ JoinReturns

SpecAudio == Init /\ [][NextAudio]_vars

NextTranscript ==
    \/ \E shape \in Shapes, rs \in Batches : FinalTranscript(shape, rs)
    \/ LoopCloses

SpecTranscript == Init /\ [][NextTranscript]_vars

\* The tracks' tasks and the transcript handler side by side, with messages
\* that are well formed or whose first result is malformed.
FailureBatches == {<<ResultAHi>>, <<ResultNull, ResultBYo>>}

NextFailures ==
    \/ \E t \in Tracks : TrackSubscribed(t)
    \/ \E t \in Tracks : \E n \in 1..MaxFrame : TrackFrame(t, n)
    \/ \E t \in Tracks : \E how \in {"ended", "failed"} : TrackEnd(t, how)
    \/ \E rs \in FailureBatches : FinalTranscript("top", rs)

SpecFailures == Init /\ [][NextFailures]_vars

NextModal ==
    \/ \E line \in AgentLines : AgentPrints(line)
    \/ AgentExits
    \/ WaitTick
    \/ WaitOver
    \/ KeepAlive
    \/ Interrupted

SpecModal == Init /\ [][NextModal]_vars

NextRun ==
    \/ \E argv \in ArgLists : RunInvoked(argv)
    \/ RunMain
    \/ \E rc \in ReturnCodes : ChildReturns(rc)
    \/ ChildInterrupted

SpecRun == Init /\ [][NextRun]_vars

\* ------------------------------------------------------- claims on the relay

Registered(c) == \E r \in DOMAIN room_clients : c \in Range(room_clients[r])

Running(c) == ws_pc[c] \in {"receive_text", "send_text"}

\* C1: a text received from member A of a room is sent verbatim, exactly once,
\* to every other member connected to the room at that moment, and never back
\* to A.  (Members that left before the loop ended are not asked for.)
C1_RelayedOnceToEveryOther ==
    \A b \in 1..Len(broadcasts) :
        /\ \A t \in Conns : \A i \in DeliveredTo(t, b, received) :
               received[t][i].text = broadcasts[b].text
        /\ \A t \in Conns : Cardinality(DeliveredTo(t, b, received)) <= 1
        /\ DeliveredTo(broadcasts[b].sender, b, received) = {}
        /\ broadcasts[b].status # "running" => broadcasts[b].missed = {}

\* C2: a broadcast in which one subscriber's send fails still reaches the
\* remaining subscribers, and removes the failing subscriber and only it.
C2_FailedSendIsolated ==
    \A b \in 1..Len(broadcasts) :
        broadcasts[b].failed # 0 =>
            /\ broadcasts[b].missed = {}
            /\ broadcasts[b].removed = {broadcasts[b].failed}

\* C3: under any interleaving of connects, disconnects and relay steps, no
\* message is delivered twice to a member, no still-connected member is
\* skipped by a broadcast that runs to its end, and every member whose
\* disconnect was handled is removed.
C3_ListSafeUnderInterleaving ==
    /\ \A b \in 1..Len(broadcasts) : \A t \in Conns :
           Cardinality(DeliveredTo(t, b, received)) <= 1
    /\ \A b \in 1..Len(broadcasts) :
           broadcasts[b].status = "done" => broadcasts[b].missed = {}
    /\ \A c \in Conns : ws_pc[c] = "returned" => ~Registered(c)

\* C5: a message sent by a member of room r is never sent to a connection
\* registered under another room name.
C5_RoomIsolation ==
    \A t \in Conns : \A i \in 1..Len(received[t]) :
        broadcasts[received[t][i].bid].room = ws_room[t]

\* C5's case: a message was delivered while another room had a member.
C5_Witness ==
    \E t \in Conns, d \in Conns :
        /\ received[t] # <<>>
        /\ Running(d) /\ Registered(d)
        /\ ws_room[d] # ws_room[t]

\* C6: a member that has disconnected never stays registered, and a room's
\* entry exists exactly while its list is not empty.
C6_DisconnectedNeverRegistered ==
    /\ \A r \in DOMAIN room_clients : room_clients[r] # <<>>
    /\ \A c \in Conns : ws_pc[c] \in {"returned", "raised"} => ~Registered(c)

\* How often c stands in the list of room r.
Occurrences(r, c) ==
    Cardinality({i \in 1..Len(room_clients[r]) : room_clients[r][i] = c})

\* C22: at every point where another handler can run, no room of the
\* registry has an empty list, a connection whose handler is running stands
\* exactly once in the list of its own room and in no other list, and a
\* connection whose handler has exited stands in no list.
C22_RegistryInvariant ==
    /\ \A r \in DOMAIN room_clients : room_clients[r] # <<>>
    /\ \A c \in Conns : Running(c) =>
           /\ ws_room[c] \in DOMAIN room_clients
           /\ Occurrences(ws_room[c], c) = 1
           /\ \A r \in DOMAIN room_clients \ {ws_room[c]} : Occurrences(r, c) = 0
    /\ \A c \in Conns : ws_pc[c] \in {"returned", "raised"} => ~Registered(c)

\* ------------------------------------------------ claims on the audio path

\* C4: when the sentinel is put while audio is still buffered, every byte
\* enqueued before the sentinel has been returned by some read, once and in
\* order, by the time a read returns the closed signal b''.
C4_DrainBeforeClosed ==
    eof_seen =>
        /\ sentinel_at >= 0
        /\ read_out = SubSeq(enqueued, 1, sentinel_at)

\* C7: a recognizer that cannot be started is fatal for the session: the
\* failure reaches entrypoint and teardown is initiated, instead of the session
\* staying in its wait while audio keeps being queued.
C7_StartFailureIsFatal ==
    [][(sm_thread = "start_failed" /\ entry_pc = "waiting") => enqueued' = enqueued]_vars

\* C13: join(timeout=5) bounds the wait of teardown, and a join that timed
\* out is followed by a forced cancellation: once entrypoint has ended the
\* recognizer thread is not running any more.
C13_TimedOutJoinCancels ==
    entry_pc = "ended" => ~ThreadAlive

\* C14: teardown cancels the process_audio_track tasks: once entrypoint has
\* ended no frame is put on the queue.
C14_NoEnqueueAfterTeardown ==
    [][entry_pc = "ended" => enqueued' = enqueued]_vars

\* The bytes of the frames waiting in the queue, in queue order.
RECURSIVE QueueBytes(_)
QueueBytes(q) ==
    IF q = <<>> THEN <<>> ELSE Head(q).data \o QueueBytes(Tail(q))

IsPrefix(a, b) == Len(a) <= Len(b) /\ a = SubSeq(b, 1, Len(a))

\* The blocks of track t among bs.
OfTrack(bs, t) == LET Is(b) == b[1] = t IN SelectSeq(bs, Is)

\* C15: with several tracks feeding the one queue, what read has returned is
\* a prefix of what was enqueued; before close nothing is lost or repeated
\* (returned, buffered and queued bytes make up exactly the enqueued ones, in
\* order), and the blocks of each track come out in the track's order.
C15_ExactlyOnceInQueueOrder ==
    /\ IsPrefix(read_out, enqueued)
    /\ ~stream_closed =>
           read_out \o stream_buffer \o QueueBytes(audio_queue) = enqueued
    /\ \A t \in Tracks :
           OfTrack(read_out, t) = [k \in 1..Len(OfTrack(read_out, t)) |-> <<t, k>>]

\* C15's case: blocks of two tracks have been returned by reads, one of them
\* a partial read, while the stream is open.
C15_Witness ==
    /\ ~stream_closed
    /\ \A t \in {1, 2} : OfTrack(read_out, t) # <<>>
    /\ stream_buffer # <<>>
    /\ read_pc = "idle"

\* A step in which a call of read returns.
ReadReturns ==
    /\ read_pc' = "idle"
    /\ read_pc = "buffering" \/ read_out' # read_out \/ eof_seen' # eof_seen

\* C19: read returns b'' only on a closed stream: closed is set by the
\* consumption of the sentinel and stays set; a read that returns with the
\* stream open returns at least one byte, and waits while there is none; a
\* read called on a closed stream returns nothing.
C19_EmptyOnlyWhenClosed ==
    [][/\ stream_closed => stream_closed'
       /\ (stream_closed' /\ ~stream_closed) =>
              (audio_queue # <<>> /\ Head(audio_queue).sentinel)
       /\ stream_closed => read_out' = read_out
       /\ eof_seen' => stream_closed'
       /\ (ReadReturns /\ ~stream_closed') => Len(read_out') > Len(read_out)
       /\ (read_pc = "buffering" /\ stream_buffer = <<>> /\ audio_queue = <<>>) =>
              read_pc' = "buffering"]_vars

\* C19's case: reads have returned audio, the sentinel has been consumed and
\* a later read has returned b''.
C19_Witness ==
    /\ stream_closed
    /\ eof_seen
    /\ read_out # <<>>
    /\ sm_thread = "streaming"

\* --------------------------------------------- claims on the transcript path

RECURSIVE Flat(_)
Flat(batches) ==
    IF batches = <<>> THEN <<>> ELSE Head(batches) \o Flat(Tail(batches))

\* a is b with some elements left out, the order kept.
RECURSIVE IsSubseq(_, _)
IsSubseq(a, b) ==
    IF a = <<>> THEN TRUE
    ELSE IF b = <<>> THEN FALSE
    ELSE IF Head(a) = Head(b) THEN IsSubseq(Tail(a), Tail(b))
    ELSE IsSubseq(a, Tail(b))

HasAlternative(r) == "alternatives" \in DOMAIN r /\ r.alternatives # <<>>

ArrivedSpeaker(r) ==
    IF "speaker" \in DOMAIN r.alternatives[1] THEN r.alternatives[1].speaker ELSE "unknown"

\* The results delivered so far that carry an alternative, in arrival order.
Arrived == SelectSeq(Flat(fed), HasAlternative)

ArrivedFor(s) == LET Is(r) == ArrivedSpeaker(r) = s IN SelectSeq(Arrived, Is)

\* The text of a delivered result: the content of its first alternative, ''
\* when it has none.
ArrivedText(r) ==
    IF "content" \in DOMAIN r.alternatives[1] THEN r.alternatives[1].content.v ELSE <<>>

ArrivedTexts(rs) == [i \in 1..Len(rs) |-> ArrivedText(rs[i])]

ArrivedPairs ==
    [i \in 1..Len(Arrived) |->
        <<ArrivedSpeaker(Arrived[i]), ArrivedText(Arrived[i])>>]

EntryTexts(entries) == [i \in 1..Len(entries) |-> entries[i].text]

PayloadHasKey(payload, key) == \E j \in 1..Len(payload) : payload[j][1] = key

PayloadValue(payload, key) ==
    payload[CHOOSE j \in 1..Len(payload) : payload[j][1] = key][2]

PublishedPairs ==
    [i \in 1..Len(published) |->
        <<PayloadValue(published[i], "speaker"), PayloadValue(published[i], "text")>>]

Scenario == Flat(fed) = <<ResultAHi, ResultBYo, ResultAThere>> /\ ~loop_closed

C10_ShapesAgree ==
    (fed # <<>> /\ Len(fed[Len(fed)]) = 1) =>
        \A shape \in {"top", "nested", "bare"} :
            LET out == OnFinalTranscript(Wrap(shape, fed[Len(fed)]), prev_messages,
                                         <<>>, loop_closed)
                n   == Len(out.pub)
            IN /\ out.sm = speaker_messages
               /\ n <= Len(published)
               /\ out.pub = SubSeq(published, Len(published) - n + 1, Len(published))

\* C10's case: a message of another shape than the top-level one has added an
\* entry.
C10_Witness ==
    /\ fed # <<>>
    /\ Len(fed[Len(fed)]) = 1
    /\ last_shape \in {"nested", "bare"}
    /\ speaker_messages # prev_messages

IsBlankText(chars) == \A i \in 1..Len(chars) : chars[i] \in Whitespace

\* The delivered results whose text is a string with a visible character.
Spoken(r) ==
    /\ HasAlternative(r)
    /\ "content" \in DOMAIN r.alternatives[1]
    /\ r.alternatives[1].content.py = "str"
    /\ ~IsBlankText(ArrivedText(r))

CountEntries(sm) ==
    Cardinality(UNION {{<<s, i>> : i \in 1..Len(sm[s])} : s \in DOMAIN sm})

LastBatch == fed[Len(fed)]

\* C11: a result whose text is empty or made of whitespace adds no entry and
\* schedules no message, in any message shape: no entry and no payload has
\* such a text, there are at most as many entries and payloads as results
\* with a visible text, and a message with no visible text changes nothing.
C11_BlankTextDiscarded ==
    /\ \A s \in DOMAIN speaker_messages : \A i \in 1..Len(speaker_messages[s]) :
           ~IsBlankText(speaker_messages[s][i].text)
    /\ \A i \in 1..Len(published) : ~IsBlankText(PayloadValue(published[i], "text"))
    /\ CountEntries(speaker_messages) <= Len(SelectSeq(Flat(fed), Spoken))
    /\ Len(published) <= Len(SelectSeq(Flat(fed), Spoken))
    /\ (fed # <<>> /\ \A i \in 1..Len(LastBatch) : ~Spoken(LastBatch[i])) =>
           speaker_messages = prev_messages

\* C11's case: after an entry was recorded, a whitespace-only text and an
\* absent text have been delivered, the last one nested under metadata.
C11_Witness ==
    /\ Len(fed) = 3
    /\ LastBatch = <<ResultBlank>>
    /\ fed[2] = <<ResultNoText>>
    /\ last_shape = "nested"
    /\ CountEntries(speaker_messages) = 1

\* C12: a result with a visible text is recorded and scheduled under the
\* speaker of its first alternative, under "unknown" when that alternative
\* has no speaker field; no other list changes.
C12_SpeakerLabel ==
    (fed # <<>> /\ Len(LastBatch) = 1 /\ Spoken(LastBatch[1])) =>
        LET r     == LastBatch[1]
            label == IF "speaker" \in DOMAIN r.alternatives[1]
                     THEN r.alternatives[1].speaker
                     ELSE "unknown"
            old   == IF label \in DOMAIN prev_messages THEN prev_messages[label] ELSE <<>>
        IN /\ DOMAIN speaker_messages = DOMAIN prev_messages \cup {label}
           /\ Len(speaker_messages[label]) = Len(old) + 1
           /\ speaker_messages[label][Len(old) + 1].text = ArrivedText(r)
           /\ \A s \in DOMAIN prev_messages \ {label} :
                  speaker_messages[s] = prev_messages[s]
           /\ ~loop_closed =>
                  /\ published # <<>>
                  /\ PayloadValue(published[Len(published)], "speaker") = label
                  /\ PayloadValue(published[Len(published)], "text") = ArrivedText(r)

\* C12's case: a result without a speaker has been recorded next to a
\* labelled one.
C12_Witness ==
    /\ fed # <<>>
    /\ LastBatch = <<ResultAnon>>
    /\ DOMAIN speaker_messages = {"A", "unknown"}
    /\ Len(published) = 2

PayloadKeys(payload) == [j \in 1..Len(payload) |-> payload[j][1]]

\* The rank of the i-th scheduled payload among those of its speaker.
RankOfPayload(i) ==
    Cardinality({j \in 1..i : PayloadValue(published[j], "speaker") =
                                 PayloadValue(published[i], "speaker")})

\* Every scheduled payload is {type: "transcription", speaker, text,
\* timestamp} and carries the fields of the entry of the same rank in its
\* speaker's list.
PayloadsMatchEntries ==
    \A i \in 1..Len(published) :
        LET p == published[i]
            s == PayloadValue(p, "speaker")
            k == RankOfPayload(i)
        IN /\ PayloadKeys(p) = <<"type", "speaker", "text", "timestamp">>
           /\ PayloadValue(p, "type") = "transcription"
           /\ s \in DOMAIN speaker_messages
           /\ k <= Len(speaker_messages[s])
           /\ speaker_messages[s][k] = [text |-> PayloadValue(p, "text"),
                                         timestamp |-> PayloadValue(p, "timestamp")]

C20_AppendOnly ==
    [][/\ DOMAIN speaker_messages \subseteq DOMAIN speaker_messages'
       /\ \A s \in DOMAIN speaker_messages :
              /\ Len(speaker_messages[s]) <= Len(speaker_messages'[s])
              /\ SubSeq(speaker_messages'[s], 1, Len(speaker_messages[s])) =
                     speaker_messages[s]
       /\ \A s \in DOMAIN speaker_messages' :
              (s \notin DOMAIN speaker_messages \/ speaker_messages'[s] # speaker_messages[s]) =>
                  /\ fed' # fed
                  /\ \E i \in 1..Len(fed'[Len(fed')]) :
                         /\ HasAlternative(fed'[Len(fed')][i])
                         /\ ArrivedSpeaker(fed'[Len(fed')][i]) = s]_vars

\* C20's case: an event of two speakers has appended to the list of one that
\* had entries and left a third speaker's list as it was.
C20_Witness ==
    /\ fed # <<>>
    /\ Len(LastBatch) = 2
    /\ \E s \in DOMAIN prev_messages :
           /\ prev_messages[s] # <<>>
           /\ Len(speaker_messages[s]) = Len(prev_messages[s]) + 1
    /\ \E s \in DOMAIN prev_messages :
           /\ \A i \in 1..Len(LastBatch) : ArrivedSpeaker(LastBatch[i]) # s
           /\ speaker_messages[s] = prev_messages[s]

\* ------------------------------------------- claims on failure isolation

\* The handler raised on the message rs: its first result is malformed.
RaisesAtOnce(rs) ==
    /\ rs # <<>>
    /\ HasAlternative(rs[1])
    /\ "content" \in DOMAIN rs[1].alternatives[1]
    /\ rs[1].alternatives[1].content.py # "str"

\* C21: a message on which on_final_transcript raises changes nothing and a
\* message delivered after it is processed as usual (its first result with a
\* visible text adds an entry); a track task that ends in an exception ends
\* alone: the other tasks stay as they are, the queue and the session too.
C21_FailuresIsolated ==
    [][/\ fed' # fed =>
              /\ RaisesAtOnce(fed'[Len(fed')]) =>
                     /\ speaker_messages' = speaker_messages
                     /\ published' = published
                     /\ audio_vars' = audio_vars
              /\ (fed'[Len(fed')] # <<>> /\ Spoken(fed'[Len(fed')][1])) =>
                     /\ CountEntries(speaker_messages') = CountEntries(speaker_messages) + 1
                     /\ Len(published') = Len(published) + 1
       /\ \A t \in Tracks :
              (track_pc[t] = "streaming" /\ track_pc'[t] = "failed") =>
                  /\ \A u \in Tracks \ {t} : track_pc'[u] = track_pc[u]
                  /\ audio_queue' = audio_queue
                  /\ entry_pc' = entry_pc
                  /\ sm_thread' = sm_thread
                  /\ transcript_vars' = transcript_vars]_vars

\* C21's case: a message was processed after one that raised, and a track
\* enqueues audio next to one whose task has failed.
C21_Witness ==
    /\ Len(fed) = 2
    /\ RaisesAtOnce(fed[1])
    /\ fed[2] = <<ResultAHi>>
    /\ CountEntries(speaker_messages) = 1
    /\ track_pc[1] = "failed"
    /\ track_sent[1] = 0
    /\ track_pc[2] = "streaming"
    /\ track_sent[2] > 0
    /\ ENABLED TrackFrame(2, 1)

\* ------------------------------------------------- claims on the scripts

ReadyLineSeen == \E i \in 1..Len(agent_out) : IsReadyLine(agent_out[i])

\* C17: run_livekit_agent returns once the subprocess has written a
\* readiness line: when the wait is over and such a line was seen, the
\* function has returned.
C17_ReturnsOnceReady ==
    (ReadyLineSeen /\ modal_pc # "polling") => modal_pc = "returned"

RestArgs == IF Len(run_argv) > 1 THEN SubSeq(run_argv, 2, Len(run_argv)) ELSE <<>>

\* main.py has been run in the given mode, the other arguments after it.
RanMainPy(mode) ==
    /\ run_cmd = <<PythonExe, "main.py", mode>> \o RestArgs
    /\ run_printed # <<>>
    /\ run_printed[1] = "starting"

\* The usage was printed and run.py exited with status 1 without running
\* main.py.
UsageExit ==
    /\ run_pc = "exited"
    /\ run_cmd = <<>>
    /\ run_printed = <<"usage">>
    /\ run_status = 1

====
